---- MODULE Spec2Model ----
(***************************************************************************)
(* daemoniker/_signals_unix.py: the Unix double-fork daemonization, its    *)
(* locked pidfile, the descriptor reaper, the stream redirection and the   *)
(* pidfile-based signal relay, as a state machine over the operating       *)
(* system objects they act on (the pidfile path, inodes, open file         *)
(* descriptions with their flock, per-process descriptor tables, process   *)
(* ids, parents and sessions).                                             *)
(***************************************************************************)
EXTENDS Integers, Sequences, FiniteSets, TLC

\* Number of daemonize() callers that can be in flight at the same time; a
\* caller whose processes have all ended can call daemonize() again.
NumCalls == 2

\* RLIMIT_NOFILE (hard limit) of the modelled processes: descriptors 0..FdLimit-1.
FdLimit == 6

Lineage == 1..NumCalls
Role == 1..3                \* 1 launcher, 2 intermediate child, 3 grandchild
Fds == 0..(FdLimit - 1)
Inodes == 1..(NumCalls + 1)

\* The character '\n' of line 172; the digits are the characters 0..9.
NL == 10

\* resource.RLIM_INFINITY
RLIM_INFINITY == -1

\* signal.SIGTERM, whose default disposition ends the process.
SIGTERM == 15

\* daemonize(fd_fallback_limit=1024)
fd_fallback_limit == 1024

VARIABLES
    pc,           \* pc[l][r]: position of process r of call l
    fdtab,        \* fdtab[l][r][fd]: what descriptor fd of the process refers to
    ppid,         \* ppid[l][r]: parent process id (0 when the process does not exist)
    sid,          \* sid[l][r]: session id
    exists,       \* exists[l]: result of os.path.isfile in _acquire_pidfile
    pidfd,        \* pidfd[l]: locked_pidfile.fileno(), -1 before the open
    shielded,     \* shielded[l]: shielded_fds
    registered,   \* registered[l]: atexit.register(cleanup) has run
    path,         \* inode the pidfile path names, 0 when the path does not exist
    content,      \* content[i]: the characters of inode i
    ofdInode,     \* ofdInode[l]: inode of the open file description of call l, 0 if none
    flocked,      \* flocked[l]: the open file description of call l holds the flock
    pos,          \* pos[l]: file offset of the open file description of call l
    errlog,       \* errlog[l]: cleanup logged a failure
    call,         \* a function called on its own: its name and arguments
    ret,          \* what that call has left behind once it is over
    priv          \* the privileges of the process that calls daemote

\* The state of a function called on its own, outside daemonize().
unit == <<call, ret, priv>>

vars == <<pc, fdtab, ppid, sid, exists, pidfd, shielded, registered, path,
          content, ofdInode, flocked, pos, errlog, call, ret, priv>>

----------------------------------------------------------------------------
\* Process ids.  The launcher's parent is the shell; orphans are adopted by init.

ShellPid == 2

Pid(l, r) == 3 * l + r + 3

Alive(l, r) == pc[l][r] # "dead"

\* str(n)
RECURSIVE str(_)
str(n) == IF n < 10 THEN <<n>> ELSE str(n \div 10) \o <<n % 10>>

\* A variant of getpid that answers the pid the launcher had when daemonize()
\* began, as if the pid were taken before the forks.
getpid_before_forks(l, r) == Pid(l, 1)

\* os.getpid()
getpid(l, r) == Pid(l, r)

\* A write(2) of data at offset off of a file holding c.
WriteAt(c, off, data) ==
    LET n == IF Len(c) > off + Len(data) THEN Len(c) ELSE off + Len(data)
    IN  [i \in 1..n |->
            IF i > off /\ i <= off + Len(data) THEN data[i - off]
            ELSE IF i <= Len(c) THEN c[i] ELSE 0]

\* Lowest descriptor number not in use: what open(2) returns.
LowestFree(tab) == CHOOSE fd \in Fds : tab[fd] = "closed" /\ \A g \in Fds : tab[g] = "closed" => fd <= g

ClosedTable == [fd \in Fds |-> "closed"]

\* Descriptor tables a launcher can be started with: the standard streams on
\* the terminal and one more inherited file on 3, with or without stdin.
NormalTable == [fd \in Fds |-> IF fd < 3 THEN "tty" ELSE IF fd = 3 THEN "inh" ELSE "closed"]
NoStdinTable == [NormalTable EXCEPT ![0] = "closed"]
LauncherTables == {NormalTable, NoStdinTable}

\* Contents a pidfile left over from an earlier run can have.
StaleContents == {<<>>, <<5, NL>>, <<4, 3, 2, 1, NL>>}

\* The open file description of call l is referenced by some descriptor.
OfdOpenIn(tabs, l) == \E r \in Role : \E fd \in Fds : tabs[l][r][fd] = "pid"

\* The kernel's bookkeeping after an operation: an open file description
\* (with its flock and offset) lasts as long as a descriptor references it,
\* an inode as long as the path or an open file description references it.
Settle(nf, np, nc, no, nl, npos) ==
    /\ fdtab' = nf
    /\ path' = np
    /\ ofdInode' = [l \in Lineage |-> IF OfdOpenIn(nf, l) THEN no[l] ELSE 0]
    /\ flocked' = [l \in Lineage |-> OfdOpenIn(nf, l) /\ nl[l]]
    /\ pos' = [l \in Lineage |-> IF OfdOpenIn(nf, l) THEN npos[l] ELSE 0]
    /\ content' = [i \in Inodes |->
            IF i = np \/ \E l \in Lineage : OfdOpenIn(nf, l) /\ no[l] = i
            THEN nc[i] ELSE <<>>]

\* The end of process r of call l: its descriptors close, its child is
\* adopted by init, and the memory of the call goes with its last process.
ProcessEnds(l, r, nf, np, nc) ==
    LET last == \A q \in Role : q # r => ~Alive(l, q)
    IN  /\ pc' = [pc EXCEPT ![l][r] = "dead"]
        /\ Settle([nf EXCEPT ![l][r] = ClosedTable], np, nc, ofdInode, flocked, pos)
        /\ ppid' = [ppid EXCEPT ![l] = [q \in Role |->
                        IF q = r THEN 0
                        ELSE IF q = r + 1 /\ Alive(l, q) THEN 1 ELSE ppid[l][q]]]
        /\ sid' = [sid EXCEPT ![l][r] = 0]
        /\ exists' = [exists EXCEPT ![l] = IF last THEN FALSE ELSE @]
        /\ pidfd' = [pidfd EXCEPT ![l] = IF last THEN -1 ELSE @]
        /\ shielded' = [shielded EXCEPT ![l] = IF last THEN {} ELSE @]
        /\ registered' = [registered EXCEPT ![l] = IF last THEN FALSE ELSE @]

\* A variant of InterpreterExit that ends the process at once, as os._exit
\* does, running no atexit function.
InterpreterExit_no_atexit(l, r) ==
    /\ registered[l]
    /\ ProcessEnds(l, r, fdtab, path, content)

\* The interpreter exits (SystemExit, an uncaught exception, the end of the
\* program): the functions registered with atexit run.
InterpreterExit(l, r) ==
    /\ registered[l]
    /\ pc' = [pc EXCEPT ![l][r] = "cleanup_close"]
    /\ UNCHANGED <<fdtab, ppid, sid, exists, pidfd, shielded, registered, path,
                   content, ofdInode, flocked, pos>>

----------------------------------------------------------------------------
\* No function is called on its own.
NoCall ==
    /\ call = [fn |-> "none"]
    /\ ret = [done |-> FALSE]
    /\ priv = [at |-> "none"]

Init ==
    /\ pc = [l \in Lineage |-> [r \in Role |-> "dead"]]
    /\ fdtab = [l \in Lineage |-> [r \in Role |-> ClosedTable]]
    /\ ppid = [l \in Lineage |-> [r \in Role |-> 0]]
    /\ sid = [l \in Lineage |-> [r \in Role |-> 0]]
    /\ exists = [l \in Lineage |-> FALSE]
    /\ pidfd = [l \in Lineage |-> -1]
    /\ shielded = [l \in Lineage |-> {}]
    /\ registered = [l \in Lineage |-> FALSE]
    /\ \/ /\ path = 0
          /\ content = [i \in Inodes |-> <<>>]
       \/ /\ path = 1
          /\ \E c \in StaleContents : content = [i \in Inodes |-> IF i = 1 THEN c ELSE <<>>]
    /\ ofdInode = [l \in Lineage |-> 0]
    /\ flocked = [l \in Lineage |-> FALSE]
    /\ pos = [l \in Lineage |-> 0]
    /\ errlog = [l \in Lineage |-> FALSE]
    /\ NoCall

----------------------------------------------------------------------------
\* daemonize() is called in a fresh launcher process: the arguments are
\* prepared and _acquire_pidfile tests os.path.isfile(pid_file).
CallDaemonize(l, tab) ==
    /\ \A r \in Role : ~Alive(l, r)
    /\ pc' = [pc EXCEPT ![l] = [r \in Role |-> IF r = 1 THEN "open" ELSE "dead"]]
    /\ fdtab' = [fdtab EXCEPT ![l][1] = tab]
    /\ ppid' = [ppid EXCEPT ![l][1] = ShellPid]
    /\ sid' = [sid EXCEPT ![l][1] = ShellPid]
    /\ exists' = [exists EXCEPT ![l] = (path # 0)]
    /\ pidfd' = [pidfd EXCEPT ![l] = -1]
    /\ shielded' = [shielded EXCEPT ![l] = {}]
    /\ registered' = [registered EXCEPT ![l] = FALSE]
    /\ errlog' = [errlog EXCEPT ![l] = FALSE]
    /\ UNCHANGED <<path, content, ofdInode, flocked, pos>>

\* _acquire_pidfile, the open: 'r+' when isfile answered true (the file must
\* still be there), 'w+' otherwise (creates the file, or truncates the one
\* that has appeared since).  A failed open ends the process: SystemExit
\* with no cleanup registered yet.
OpenPidfile(l) ==
    /\ pc[l][1] = "open"
    /\ UNCHANGED errlog
    /\ IF exists[l] /\ path = 0
       THEN ProcessEnds(l, 1, fdtab, path, content)
       ELSE LET fd == LowestFree(fdtab[l][1])
                new == CHOOSE i \in Inodes :
                          /\ \A k \in Lineage : ofdInode[k] # i
                          /\ \A j \in Inodes : (\A k \in Lineage : ofdInode[k] # j) => i <= j
                ino == IF path = 0 THEN new ELSE path
                nc == IF exists[l] THEN content ELSE [content EXCEPT ![ino] = <<>>]
            IN  /\ pc' = [pc EXCEPT ![l][1] = "flock"]
                /\ pidfd' = [pidfd EXCEPT ![l] = fd]
                /\ Settle([fdtab EXCEPT ![l][1][fd] = "pid"], ino, nc,
                          [ofdInode EXCEPT ![l] = ino], flocked,
                          [pos EXCEPT ![l] = 0])
                /\ UNCHANGED <<ppid, sid, exists, shielded, registered>>

\* The flock of another open file description on the same inode.
LockedByOther(l) ==
    \E k \in Lineage : k # l /\ flocked[k] /\ ofdInode[k] = ofdInode[l]

\* A variant of Flock without LOCK_NB: the call waits until the lock is free.
Flock_blocking(l) ==
    /\ pc[l][1] = "flock"
    /\ ~LockedByOther(l)
    /\ pc' = [pc EXCEPT ![l][1] = "register"]
    /\ Settle(fdtab, path, content, ofdInode, [flocked EXCEPT ![l] = TRUE], pos)
    /\ UNCHANGED <<ppid, sid, exists, pidfd, shielded, registered, errlog>>

\* _acquire_pidfile, fcntl.flock(LOCK_EX | LOCK_NB): never blocks.  On
\* failure the handle is closed and SystemExit ends the process.
Flock(l) ==
    /\ pc[l][1] = "flock"
    /\ UNCHANGED errlog
    /\ IF LockedByOther(l)
       THEN ProcessEnds(l, 1, [fdtab EXCEPT ![l][1][pidfd[l]] = "closed"], path, content)
       ELSE /\ pc' = [pc EXCEPT ![l][1] = "register"]
            /\ Settle(fdtab, path, content, ofdInode,
                      [flocked EXCEPT ![l] = TRUE], pos)
            /\ UNCHANGED <<ppid, sid, exists, pidfd, shielded, registered>>

\* daemonize: shielded_fds.add(locked_pidfile.fileno()); atexit.register(cleanup)
Register(l) ==
    /\ pc[l][1] = "register"
    /\ shielded' = [shielded EXCEPT ![l] = @ \cup {pidfd[l]}]
    /\ registered' = [registered EXCEPT ![l] = TRUE]
    /\ pc' = [pc EXCEPT ![l][1] = "fork1"]
    /\ UNCHANGED <<fdtab, ppid, sid, exists, pidfd, path, content, ofdInode,
                   flocked, pos, errlog>>

\* daemonize: what follows each of the two _fratricidal_fork calls
AfterFork(at) == IF at = "fork1" THEN "usurp" ELSE "write_pid"

\* A variant of Fork whose parent branch does not exit: parent and child both
\* go on with daemonize().
Fork_parent_continues(l, r, ok) ==
    /\ pc[l][r] \in {"fork1", "fork2"}
    /\ r + 1 \in Role
    /\ ~Alive(l, r + 1)
    /\ UNCHANGED errlog
    /\ IF ok
       THEN /\ pc' = [pc EXCEPT ![l][r] = AfterFork(pc[l][r]),
                                ![l][r + 1] = AfterFork(pc[l][r])]
            /\ fdtab' = [fdtab EXCEPT ![l][r + 1] = fdtab[l][r]]
            /\ ppid' = [ppid EXCEPT ![l][r + 1] = Pid(l, r)]
            /\ sid' = [sid EXCEPT ![l][r + 1] = sid[l][r]]
            /\ UNCHANGED <<exists, pidfd, shielded, registered, path, content,
                           ofdInode, flocked, pos>>
       ELSE InterpreterExit(l, r)

\* A variant of Fork in which the second fork is left out: the session leader
\* itself goes on to the housekeeping.
Fork_second_left_out(l, r, ok) ==
    /\ pc[l][r] \in {"fork1", "fork2"}
    /\ r + 1 \in Role
    /\ ~Alive(l, r + 1)
    /\ UNCHANGED errlog
    /\ IF pc[l][r] = "fork2"
       THEN /\ pc' = [pc EXCEPT ![l][r] = "write_pid"]
            /\ UNCHANGED <<fdtab, ppid, sid, exists, pidfd, shielded, registered,
                           path, content, ofdInode, flocked, pos>>
       ELSE IF ok
       THEN /\ pc' = [pc EXCEPT ![l][r] = "parent_exit",
                                ![l][r + 1] = AfterFork(pc[l][r])]
            /\ fdtab' = [fdtab EXCEPT ![l][r + 1] = fdtab[l][r]]
            /\ ppid' = [ppid EXCEPT ![l][r + 1] = Pid(l, r)]
            /\ sid' = [sid EXCEPT ![l][r + 1] = sid[l][r]]
            /\ UNCHANGED <<exists, pidfd, shielded, registered, path, content,
                           ofdInode, flocked, pos>>
       ELSE InterpreterExit(l, r)

\* _fratricidal_fork, os.fork(): the child is a copy of the caller (same
\* descriptors, hence the same open file description and its lock; same
\* session); the caller goes on to os._exit.  A failed fork raises SystemExit.
Fork(l, r, ok) ==
    /\ pc[l][r] \in {"fork1", "fork2"}
    /\ r + 1 \in Role
    /\ ~Alive(l, r + 1)
    /\ UNCHANGED errlog
    /\ IF ok
       THEN /\ pc' = [pc EXCEPT ![l][r] = "parent_exit",
                                ![l][r + 1] = AfterFork(pc[l][r])]
            /\ fdtab' = [fdtab EXCEPT ![l][r + 1] = fdtab[l][r]]
            /\ ppid' = [ppid EXCEPT ![l][r + 1] = Pid(l, r)]
            /\ sid' = [sid EXCEPT ![l][r + 1] = sid[l][r]]
            /\ UNCHANGED <<exists, pidfd, shielded, registered, path, content,
                           ofdInode, flocked, pos>>
       ELSE InterpreterExit(l, r)

\* _fratricidal_fork, the parent branch: os._exit(0), which runs no atexit
\* function.
ParentExit(l, r) ==
    /\ pc[l][r] = "parent_exit"
    /\ ProcessEnds(l, r, fdtab, path, content)
    /\ UNCHANGED errlog

\* _filial_usurpation: chdir, setsid, umask.  A failure (OSError from chdir or
\* setsid, or the SystemExit of the -1 test) ends the interpreter.
FilialUsurpation(l, r, ok) ==
    /\ pc[l][r] = "usurp"
    /\ UNCHANGED errlog
    /\ IF ok
       THEN /\ pc' = [pc EXCEPT ![l][r] = "fork2"]
            /\ sid' = [sid EXCEPT ![l][r] = Pid(l, r)]
            /\ UNCHANGED <<fdtab, ppid, exists, pidfd, shielded, registered, path,
                           content, ofdInode, flocked, pos>>
       ELSE InterpreterExit(l, r)

\* The inode descriptor fd of process r of call l writes to, 0 when the
\* descriptor is not (or no longer) the pidfile.
InodeOfFd(l, r, fd) == IF fd \in Fds /\ fdtab[l][r][fd] = "pid" THEN ofdInode[l] ELSE 0

\* A variant of WritePidTruncate that seeks but does not truncate.
WritePidTruncate_seek_only(l, r) ==
    /\ pc[l][r] = "write_pid"
    /\ Settle(fdtab, path, content, ofdInode, flocked, [pos EXCEPT ![l] = 0])
    /\ pc' = [pc EXCEPT ![l][r] = "write_flush"]
    /\ UNCHANGED <<ppid, sid, exists, pidfd, shielded, registered, errlog>>

\* _write_pid: locked_pidfile.seek(0); locked_pidfile.truncate(0)
WritePidTruncate(l, r) ==
    /\ pc[l][r] = "write_pid"
    /\ LET ino == InodeOfFd(l, r, pidfd[l])
       IN  Settle(fdtab, path,
                  IF ino = 0 THEN content ELSE [content EXCEPT ![ino] = <<>>],
                  ofdInode, flocked, [pos EXCEPT ![l] = 0])
    /\ pc' = [pc EXCEPT ![l][r] = "write_flush"]
    /\ UNCHANGED <<ppid, sid, exists, pidfd, shielded, registered, errlog>>

\* _write_pid: pid = str(os.getpid()); write(pid + '\n'); flush()
WritePidFlush(l, r) ==
    /\ pc[l][r] = "write_flush"
    /\ LET ino == InodeOfFd(l, r, pidfd[l])
           data == str(getpid(l, r)) \o <<NL>>
       IN  Settle(fdtab, path,
                  IF ino = 0 THEN content
                  ELSE [content EXCEPT ![ino] = WriteAt(@, pos[l], data)],
                  ofdInode, flocked, [pos EXCEPT ![l] = @ + Len(data)])
    /\ pc' = [pc EXCEPT ![l][r] = "autoclose"]
    /\ UNCHANGED <<ppid, sid, exists, pidfd, shielded, registered, errlog>>

\* The elements of a set as a list, in some order.
RECURSIVE SetToSeq(_)
SetToSeq(S) == IF S = {} THEN <<>>
               ELSE LET x == CHOOSE y \in S : TRUE IN <<x>> \o SetToSeq(S \ {x})

\* _make_range_tuples, the loop over the sorted exclude list from index k on:
\* <<seeker, ranges>> after the loop.
RECURSIVE RangeLoop(_, _, _, _)
RangeLoop(exclude, k, seeker, ranges) ==
    IF k > Len(exclude) THEN <<seeker, ranges>>
    ELSE LET ii == exclude[k]
         IN  RangeLoop(exclude, k + 1, ii + 1,
                       IF seeker # ii THEN Append(ranges, <<seeker, ii>>) ELSE ranges)

\* _make_range_tuples(start, stop, exclude), exclude a list
_make_range_tuples(start, stop, exclude) ==
    LET kept == SelectSeq(exclude, LAMBDA ii : ii >= start)
        sorted == SortSeq(kept, LAMBDA a, b : a < b)
        after == RangeLoop(sorted, 1, start, <<>>)
    IN  IF after[1] < stop THEN Append(after[2], <<after[1], stop>>) ELSE after[2]

\* A variant of ResolveFdLimit that prefers the soft limit.
ResolveFdLimit_soft_first(softlimit, hardlimit, fallback_limit) ==
    IF softlimit = RLIM_INFINITY
    THEN IF hardlimit = RLIM_INFINITY THEN fallback_limit ELSE hardlimit
    ELSE softlimit

\* _autoclose_files: the limit up to which descriptors are closed
ResolveFdLimit(softlimit, hardlimit, fallback_limit) ==
    IF hardlimit = RLIM_INFINITY
    THEN IF softlimit = RLIM_INFINITY THEN fallback_limit ELSE softlimit
    ELSE hardlimit

\* os.closerange(lo, hi) on a descriptor table
closerange(tab, lo, hi) == [fd \in Fds |-> IF fd >= lo /\ fd < hi THEN "closed" ELSE tab[fd]]

RECURSIVE CloseRanges(_, _, _)
CloseRanges(tab, ranges, k) ==
    IF k > Len(ranges) THEN tab
    ELSE CloseRanges(closerange(tab, ranges[k][1], ranges[k][2]), ranges, k + 1)

\* _autoclose_files(shielded, fallback_limit) on the table of a process whose
\* limits are (softlimit, hardlimit)
_autoclose_files(tab, shield, softlimit, hardlimit, fallback_limit) ==
    LET fdlimit == ResolveFdLimit(softlimit, hardlimit, fallback_limit)
        ranges_to_close == _make_range_tuples(3, fdlimit, SetToSeq(shield))
    IN  CloseRanges(tab, ranges_to_close, 1)

\* daemonize: _autoclose_files(shielded_fds, fd_fallback_limit)
AutocloseFiles(l, r) ==
    /\ pc[l][r] = "autoclose"
    /\ Settle([fdtab EXCEPT ![l][r] =
                  _autoclose_files(@, shielded[l], FdLimit, FdLimit, fd_fallback_limit)],
              path, content, ofdInode, flocked, pos)
    /\ pc' = [pc EXCEPT ![l][r] = "redirect"]
    /\ UNCHANGED <<ppid, sid, exists, pidfd, shielded, registered, errlog>>

\* os.devnull, the default target of the three streams
devnull == "null"

\* The access bitmasks of _redirect_stds and the os.open flags they select.
read_mask == 1
write_mask == 2
rw_mask == 3
O_RDONLY == 0
O_WRONLY == 1
O_RDWR == 2

\* a | b
RECURSIVE BitOr(_, _)
BitOr(a, b) ==
    IF a = 0 THEN b
    ELSE IF b = 0 THEN a
    ELSE (IF a % 2 = 1 \/ b % 2 = 1 THEN 1 ELSE 0) + 2 * BitOr(a \div 2, b \div 2)

\* A variant of StreamMask in which each slot assigns its mask in place of
\* or-ing it in.
StreamMask_assign(stream, stdin_goto, stdout_goto, stderr_goto) ==
    LET m1 == IF stream = stdin_goto THEN read_mask ELSE 0
        m2 == IF stream = stdout_goto THEN write_mask ELSE m1
    IN  IF stream = stderr_goto THEN write_mask ELSE m2

\* streams[stream] after the three `|=` statements
StreamMask(stream, stdin_goto, stdout_goto, stderr_goto) ==
    LET m1 == IF stream = stdin_goto THEN BitOr(0, read_mask) ELSE 0
        m2 == IF stream = stdout_goto THEN BitOr(m1, write_mask) ELSE m1
    IN  IF stream = stderr_goto THEN BitOr(m2, write_mask) ELSE m2

\* access_lookup[mask]
access_lookup(mask) ==
    IF mask = read_mask THEN O_RDONLY
    ELSE IF mask = write_mask THEN O_WRONLY
    ELSE O_RDWR

\* The calls os.open(stream, access) of the loop, in its order.  (A missing
\* path is first created through a handle that is closed at once and leaves
\* no descriptor.)
OpenCalls(order, stdin_goto, stdout_goto, stderr_goto) ==
    [k \in 1..Len(order) |->
        <<order[k], access_lookup(StreamMask(order[k], stdin_goto, stdout_goto, stderr_goto))>>]

\* _redirect_stds, the loop that opens each unique path (in the iteration
\* order of the streams dict): <<table, fds>> with fds[k] the descriptor
\* opened for order[k].
RECURSIVE OpenStreams(_, _, _, _)
OpenStreams(tab, order, k, fds) ==
    IF k > Len(order) THEN <<tab, fds>>
    ELSE LET stream_fd == LowestFree(tab)
         IN  OpenStreams([tab EXCEPT ![stream_fd] = order[k]], order, k + 1,
                         Append(fds, stream_fd))

\* streams[goto]
StreamFd(order, fds, goto) == fds[CHOOSE k \in 1..Len(order) : order[k] = goto]

\* os.dup2(fd, fd2): fd2 is silently closed first and then refers to what fd does
dup2(tab, fd, fd2) == IF fd = fd2 THEN tab ELSE [tab EXCEPT ![fd2] = tab[fd]]

\* for duped_fd in streams.values(): os.close(duped_fd)
RECURSIVE CloseStreams(_, _, _)
CloseStreams(tab, fds, k) ==
    IF k > Len(fds) THEN tab
    ELSE CloseStreams([tab EXCEPT ![fds[k]] = "closed"], fds, k + 1)

\* sys.stdout is None: the interpreter was started without descriptor 1, which
\* is then either still closed or has been taken by the pidfile.
SysStdoutIsNone(tab) == tab[1] \in {"closed", "pid"}

\* sys.stderr is None, likewise for descriptor 2.
SysStderrIsNone(tab) == tab[2] \in {"closed", "pid"}

\* _redirect_stds does not return: with sys.stdout set and sys.stderr None,
\* sys.stderr.flush() in _flush_stds is an AttributeError, which its
\* `except BlockingIOError` does not catch.
RedirectRaises(tab) == ~SysStdoutIsNone(tab) /\ SysStderrIsNone(tab)

\* _redirect_stds(stdin_goto, stdout_goto, stderr_goto) on a descriptor table;
\* order lists the unique paths as the streams dict iterates them.
_redirect_stds(tab, order, stdin_goto, stdout_goto, stderr_goto) ==
    LET opened == OpenStreams(tab, order, 1, <<>>)
        stdin_fd == StreamFd(order, opened[2], stdin_goto)
        stdout_fd == StreamFd(order, opened[2], stdout_goto)
        stderr_fd == StreamFd(order, opened[2], stderr_goto)
    IN  IF SysStdoutIsNone(tab) \/ RedirectRaises(tab) THEN opened[1]
        ELSE CloseStreams(dup2(dup2(dup2(opened[1], stdin_fd, 0), stdout_fd, 1),
                               stderr_fd, 2),
                          opened[2], 1)

\* daemonize: _redirect_stds(stdin_goto, stdout_goto, stderr_goto) with the
\* default targets, then return args.
RedirectStds(l, r) ==
    /\ pc[l][r] = "redirect"
    /\ Settle([fdtab EXCEPT ![l][r] =
                  _redirect_stds(@, <<devnull>>, devnull, devnull, devnull)],
              path, content, ofdInode, flocked, pos)
    /\ pc' = [pc EXCEPT ![l][r] = "returned"]
    /\ UNCHANGED <<ppid, sid, exists, pidfd, shielded, registered, errlog>>

\* The daemon's program ends (sys.exit, the end of the script, an uncaught
\* exception): the interpreter runs the atexit functions.
AppExit(l, r) ==
    /\ pc[l][r] = "returned"
    /\ InterpreterExit(l, r)
    /\ UNCHANGED errlog

\* cleanup: pid_lock.close().  Closing a descriptor that is not open raises,
\* the except clause logs, and os.remove is skipped.
CleanupClose(l, r) ==
    /\ pc[l][r] = "cleanup_close"
    /\ IF fdtab[l][r][pidfd[l]] = "closed"
       THEN /\ ProcessEnds(l, r, fdtab, path, content)
            /\ errlog' = [errlog EXCEPT ![l] = TRUE]
       ELSE /\ Settle([fdtab EXCEPT ![l][r][pidfd[l]] = "closed"], path, content,
                      ofdInode, flocked, pos)
            /\ pc' = [pc EXCEPT ![l][r] = "cleanup_remove"]
            /\ UNCHANGED <<ppid, sid, exists, pidfd, shielded, registered, errlog>>

\* cleanup: os.remove(pid_path); a failure is logged.  The interpreter then
\* finishes and the process ends.
CleanupRemove(l, r) ==
    /\ pc[l][r] = "cleanup_remove"
    /\ ProcessEnds(l, r, fdtab, 0, content)
    /\ errlog' = [errlog EXCEPT ![l] = @ \/ (path = 0)]

\* int(f.read()): the decimal number of a text of digits with surrounding
\* newlines stripped, -1 for a text int() rejects with ValueError.
RECURSIVE DigitsValue(_)
DigitsValue(d) == IF Len(d) = 0 THEN 0
                  ELSE 10 * DigitsValue(SubSeq(d, 1, Len(d) - 1)) + d[Len(d)]

RECURSIVE Strip(_)
Strip(c) == IF Len(c) > 0 /\ c[1] = NL THEN Strip(Tail(c))
            ELSE IF Len(c) > 0 /\ c[Len(c)] = NL THEN Strip(SubSeq(c, 1, Len(c) - 1))
            ELSE c

ParseInt(c) ==
    LET d == Strip(c)
    IN  IF Len(d) > 0 /\ \A i \in 1..Len(d) : d[i] \in 0..9 THEN DigitsValue(d) ELSE -1

\* send(pid_file, signal) from a process outside the daemon: the pid is read
\* from the file and os.kill delivers the signal.  Signal 0 only probes;
\* SIGTERM, for which no handler is installed, ends the target without
\* running its atexit functions.
Send(signum) ==
    /\ path # 0
    /\ LET pid == ParseInt(content[path])
       IN  /\ pid # -1
           /\ \E l \in Lineage, r \in Role :
                /\ Pid(l, r) = pid
                /\ Alive(l, r)
                /\ IF signum = 0
                   THEN UNCHANGED vars
                   ELSE /\ ProcessEnds(l, r, fdtab, path, content)
                        /\ UNCHANGED errlog

\* How send(pid_file, signum) ends when a process outside the daemon calls it
\* now: "" when os.kill has delivered the signal, else the exception that
\* leaves it - open() of a missing path, int() of a text that is no number,
\* os.kill of a pid that is not in the process table.
SendOutcome ==
    IF path = 0 THEN "FileNotFoundError"
    ELSE IF ParseInt(content[path]) = -1 THEN "ValueError"
    ELSE IF \E l \in Lineage, r \in Role : Pid(l, r) = ParseInt(content[path]) /\ Alive(l, r)
    THEN ""
    ELSE "ProcessLookupError"

\* The exceptions `except OSError` catches.
OSError == {"FileNotFoundError", "ProcessLookupError", "PermissionError"}

\* ping(pid_file): what the call evaluates to, the exception's name when one
\* leaves it.
ping ==
    IF SendOutcome = "" THEN "True"
    ELSE IF SendOutcome \in OSError THEN "False"
    ELSE SendOutcome

----------------------------------------------------------------------------
Next ==
    \/ \E l \in Lineage, tab \in LauncherTables : CallDaemonize(l, tab) /\ UNCHANGED unit
    \/ \E l \in Lineage : OpenPidfile(l) /\ UNCHANGED unit
    \/ \E l \in Lineage : Flock(l) /\ UNCHANGED unit
    \/ \E l \in Lineage : Register(l) /\ UNCHANGED unit
    \/ \E l \in Lineage, r \in Role, ok \in BOOLEAN : Fork(l, r, ok) /\ UNCHANGED unit
    \/ \E l \in Lineage, r \in Role : ParentExit(l, r) /\ UNCHANGED unit
    \/ \E l \in Lineage, r \in Role, ok \in BOOLEAN : FilialUsurpation(l, r, ok) /\ UNCHANGED unit
    \/ \E l \in Lineage, r \in Role : WritePidTruncate(l, r) /\ UNCHANGED unit
    \/ \E l \in Lineage, r \in Role : WritePidFlush(l, r) /\ UNCHANGED unit
    \/ \E l \in Lineage, r \in Role : AutocloseFiles(l, r) /\ UNCHANGED unit
    \/ \E l \in Lineage, r \in Role : RedirectStds(l, r) /\ UNCHANGED unit
    \/ \E l \in Lineage, r \in Role : AppExit(l, r) /\ UNCHANGED unit
    \/ \E l \in Lineage, r \in Role : CleanupClose(l, r) /\ UNCHANGED unit
    \/ \E l \in Lineage, r \in Role : CleanupRemove(l, r) /\ UNCHANGED unit
    \/ \E signum \in {0, SIGTERM} : Send(signum) /\ UNCHANGED unit

Spec == Init /\ [][Next]_vars

TypeOK ==
    /\ path \in 0..(NumCalls + 1)
    /\ \A l \in Lineage : pidfd[l] \in -1..(FdLimit - 1)
    /\ \A l \in Lineage : flocked[l] => ofdInode[l] # 0

----------------------------------------------------------------------------
\* Positions of daemonize() between the return of _acquire_pidfile and the
\* return of daemonize(): the process has neither ended nor begun its cleanup.
Holding == {"register", "fork1", "usurp", "fork2", "write_pid", "write_flush",
            "autoclose", "redirect", "returned"}

\* The housekeeping after the second fork, and the return.
Housekeeping == {"write_pid", "write_flush", "autoclose", "redirect", "returned"}

\* Process r of call l takes a step of _acquire_pidfile.
AcquireStep(l) == pc[l][1] \in {"open", "flock"} /\ pc'[l][1] # pc[l][1]

\* Call l has passed _acquire_pidfile, holds the lock it took there, and has a
\* process that is on its way to being the daemon or is the daemon.
LiveHolder(l) == flocked[l] /\ \E r \in Role : pc[l][r] \in Holding

\* C1: at most one live daemon lineage at a time has passed _acquire_pidfile
\* for the pidfile path and holds its exclusive lock.
C1_MutualExclusion ==
    \A k, l \in Lineage : (LiveHolder(k) /\ LiveHolder(l)) => k = l

\* C2: a step of _acquire_pidfile made while another live call holds the lock
\* on the pidfile leaves the path, the file's content and the holder's lock as
\* they are, and the lock attempt itself fails.
C2_FailedAcquireHarmless ==
    [][\A l \in Lineage :
          (/\ AcquireStep(l)
           /\ path # 0
           /\ \E k \in Lineage : k # l /\ flocked[k] /\ ofdInode[k] = path)
          => /\ path' = path
             /\ content'[path] = content[path]
             /\ \A k \in Lineage : (k # l /\ flocked[k]) => flocked'[k]
             /\ (pc[l][1] = "flock" /\ ofdInode[l] = path) => pc'[l][1] = "dead"]_vars

\* The launcher of call l has ended inside _acquire_pidfile: it holds no
\* descriptor, registered no cleanup and forked no child.
AcquireFailed(l) ==
    /\ pc[l][1] = "dead"
    /\ fdtab[l][1] = ClosedTable
    /\ ~registered[l]
    /\ ~Alive(l, 2) /\ ~Alive(l, 3)

\* C3: _acquire_pidfile never waits: its open and its flock can always run,
\* and each either goes on (the flock returning with the handle open and the
\* exclusive lock held) or ends the process with the handle closed, before any
\* fork, cleanup registration or write to the file.
C3_AcquireNeverWaits ==
    /\ [](\A l \in Lineage : /\ pc[l][1] = "open" => ENABLED OpenPidfile(l)
                             /\ pc[l][1] = "flock" => ENABLED Flock(l))
    /\ [][\A l \in Lineage :
            /\ (pc[l][1] = "open" /\ pc'[l][1] # "open")
                  => \/ pc'[l][1] = "flock" /\ fdtab'[l][1][pidfd'[l]] = "pid"
                     \/ AcquireFailed(l)' /\ content' = content /\ path' = path
            /\ (pc[l][1] = "flock" /\ pc'[l][1] # "flock")
                  => \/ /\ pc'[l][1] = "register"
                        /\ flocked'[l]
                        /\ fdtab'[l][1][pidfd'[l]] = "pid"
                        /\ \A k \in Lineage : (k # l /\ ofdInode'[k] = ofdInode'[l]) => ~flocked'[k]
                     \/ AcquireFailed(l)' /\ content' = content /\ path' = path]_vars

\* C3 witness: under contention for one file, _acquire_pidfile has returned in
\* one launcher with the lock held, and the flock of another is about to fail.
C3_Witness ==
    \E k, l \in Lineage :
        /\ k # l
        /\ pc[l][1] = "register" /\ flocked[l]
        /\ pc[k][1] = "flock" /\ LockedByOther(k)

\* C4: the lock is taken and the pidfile's descriptor shielded before the first
\* fork, the FD Reaper leaves that descriptor open, and every process of the
\* call that has not ended or begun its cleanup holds the lock.
C4_LockHeldUntilCleanup ==
    \A l \in Lineage, r \in Role :
        /\ pc[l][r] \in Holding \ {"register"} => pidfd[l] \in shielded[l]
        /\ pc[l][r] = "redirect" => fdtab[l][r][pidfd[l]] = "pid"
        /\ pc[l][r] \in Holding => flocked[l]

\* C5: the os._exit of a fork's parent branch neither removes the pidfile nor
\* takes the lock from the surviving lineage, and at the return of daemonize() the pidfile path exists,
\* names the file the daemon has open, and the daemon holds its lock.
C5_ParentExitKeepsLock ==
    [][\A l \in Lineage, r \in Role :
          /\ (pc[l][r] = "parent_exit" /\ pc'[l][r] = "dead")
                => /\ path' = path
                   /\ (\E q \in Role : pc[l][q] \in Holding) => flocked'[l] = flocked[l]
          /\ (pc[l][r] = "redirect" /\ pc'[l][r] = "returned")
                => /\ path' # 0
                   /\ ofdInode'[l] = path'
                   /\ flocked'[l]
                   /\ fdtab'[l][r][pidfd'[l]] = "pid"]_vars

\* C6: only the grandchild runs the housekeeping after the second fork and
\* returns from daemonize(); the launcher ends at the first fork, the
\* intermediate child at the second.
C6_OnlyGrandchildReturns ==
    \A l \in Lineage :
        /\ pc[l][1] \notin {"usurp", "fork2"} \cup Housekeeping
        /\ pc[l][2] \notin Housekeeping
        /\ \A r \in Role : pc[l][r] \in Housekeeping => r = 3

\* C6 witness: the grandchild has returned and both its ancestors have ended.
C6_Witness ==
    \E l \in Lineage : pc[l][3] = "returned" /\ ~Alive(l, 1) /\ ~Alive(l, 2)

\* C7: the process daemonize() returns in is not a session leader (its
\* session is the one the intermediate child created) and its parent is never
\* the launching process.
C7_NotLeaderReparented ==
    \A l \in Lineage, r \in Role :
        pc[l][r] = "returned"
            => /\ sid[l][r] # Pid(l, r)
               /\ sid[l][r] = Pid(l, 2)
               /\ ppid[l][r] # Pid(l, 1)
               /\ ppid[l][r] \in {Pid(l, 2), 1}

\* C7 witness: a returned daemon whose parent, the session leader, has ended,
\* so that init has adopted it.
C7_Witness ==
    \E l \in Lineage : pc[l][3] = "returned" /\ ppid[l][3] = 1 /\ ~Alive(l, 2)

\* The texts str(pid) + '\n' of the processes that run each role.
PidText(l, r) == str(Pid(l, r)) \o <<NL>>

\* C8: whenever text is put into a file, it is put there by a grandchild, after
\* both forks of its call have returned in their parents, and it is that
\* grandchild's decimal pid and a newline.
C8_PidWrittenAfterForks ==
    [][\A i \in Inodes :
          (content'[i] # content[i] /\ content'[i] # <<>>)
             => \E l \in Lineage :
                   /\ pc[l][3] = "write_flush" /\ pc'[l][3] = "autoclose"
                   /\ ofdInode[l] = i
                   /\ pc[l][1] \in {"parent_exit", "dead"}
                   /\ pc[l][2] \in {"parent_exit", "dead"}
                   /\ content'[i] = PidText(l, 3)]_vars

\* C8 witness: the pidfile holds the pid of a grandchild that has returned.
C8_Witness ==
    \E l \in Lineage : pc[l][3] = "returned" /\ path # 0 /\ content[path] = PidText(l, 3)

\* C9: when _write_pid returns, the file behind the handle holds exactly the
\* decimal pid of the writing process and one newline, whatever it held before.
C9_WriteThenRead ==
    [][\A l \in Lineage, r \in Role :
          (pc[l][r] = "write_flush" /\ pc'[l][r] = "autoclose")
             => /\ ofdInode'[l] # 0
                /\ content'[ofdInode'[l]] = PidText(l, r)
                /\ ParseInt(content'[ofdInode'[l]]) = Pid(l, r)]_vars

\* C9 witness: _write_pid has returned on a file that was opened 'r+', that is
\* without truncation, so over whatever an earlier run left in it.
C9_Witness ==
    \E l \in Lineage : /\ pc[l][3] = "autoclose" /\ exists[l]
                       /\ content[ofdInode[l]] = PidText(l, 3)

\* Process r of call l ends in this step.
Ends(l, r) == Alive(l, r) /\ pc'[l][r] = "dead"

\* C10: once the cleanup is registered, a process of the call that ends
\* otherwise than in the parent branch of a fork ends by having run the cleanup,
\* however it ends: its handle closed and the pidfile path gone.
C10_CleanupRunsHoweverEnded ==
    [][\A l \in Lineage, r \in Role :
          (Ends(l, r) /\ registered[l] /\ pc[l][r] # "parent_exit")
             => /\ pc[l][r] = "cleanup_remove"
                /\ fdtab[l][r][pidfd[l]] = "closed"
                /\ path' = 0]_vars

\* C10 as amended: once the cleanup is registered, every interpreter exit of a
\* process of the call (the SystemExit of a failed fork, a failed session
\* detach, the end of the daemon's program) starts the cleanup, and a process
\* that ends otherwise than by os._exit in a fork's parent branch or by a
\* signal sent with send() ends by having run it: its handle is closed (which
\* releases the lock when no other process of the call is left), the path is
\* gone, and a failed removal is logged while the process ends normally.
C10_CleanupRunsOnInterpreterExit ==
    [][\A l \in Lineage, r \in Role :
          /\ (Ends(l, r) /\ registered[l] /\ pc[l][r] # "parent_exit" /\ ~Send(SIGTERM))
                => /\ pc[l][r] = "cleanup_remove"
                   /\ fdtab[l][r][pidfd[l]] = "closed"
                   /\ (\A q \in Role : q # r => ~Alive(l, q)) => ~flocked[l]
                   /\ path' = 0
                   /\ (path = 0) => errlog'[l]
          /\ (registered[l] /\ pc[l][r] \in {"fork1", "usurp", "fork2", "returned"}
                /\ pc'[l][r] # pc[l][r] /\ ~Send(SIGTERM))
                => pc'[l][r] \in {"parent_exit", "fork2", "cleanup_close"}
          /\ (pc[l][r] = "cleanup_close" /\ pc'[l][r] # pc[l][r] /\ ~Send(SIGTERM))
                => pc'[l][r] = "cleanup_remove" /\ fdtab'[l][r][pidfd[l]] = "closed"]_vars

\* C10 witness: on an error path (the intermediate child failed to detach or
\* to fork) the cleanup has closed the handle, releasing the lock, and is
\* about to remove the file.
C10_Witness ==
    \E l \in Lineage : /\ pc[l][2] = "cleanup_remove" /\ ~Alive(l, 1) /\ ~Alive(l, 3)
                       /\ ~flocked[l] /\ path # 0

----------------------------------------------------------------------------
\* daemote(pid_file, user, group), called on its own by a process that owns
\* the pidfile.

\* The user id and group id of the calling process and of the pidfile
\* before the call: those of the superuser.
root == 0

\* A user or group argument: None, a name, or a numeric id.
None == [kind |-> "None", name |-> "", id |-> 0]
Name(n) == [kind |-> "str", name |-> n, id |-> 0]
Id(i) == [kind |-> "int", name |-> "", id |-> i]

\* The password and group databases: one account, one group.
passwd == [n \in {"daemon"} |-> 1]
groupdb == [n \in {"daemon"} |-> 1]

\* Arguments daemote is called with: None, a known name, an unknown name, an id.
UserArgs == {None, Name("daemon"), Name("ghost"), Id(1)}
GroupArgs == {None, Name("daemon"), Name("ghost"), Id(1)}

\* The capabilities the kernel tests in chown, setgid and setuid.  A process
\* of the superuser holds all three unless its capability bounding set has
\* been restricted.
Capabilities == {"CAP_CHOWN", "CAP_SETGID", "CAP_SETUID"}

\* The statement daemote executes after the one at position at.
NextStep_user_first(at) ==
    IF at = "chown" THEN "setuser"
    ELSE IF at = "setuser" THEN "setgroup"
    ELSE "returned"

NextStep(at) ==
    IF at = "chown" THEN "setgroup"
    ELSE IF at = "setgroup" THEN "setuser"
    ELSE "returned"

\* An exception leaves daemote: nothing catches it.
Raise(exc) == priv' = [priv EXCEPT !.at = "raised", !.exc = exc]

\* daemote is called.
CallDaemote(user, group, caps) ==
    /\ call = [fn |-> "daemote", user |-> user, group |-> group]
    /\ ret = [done |-> FALSE]
    /\ priv = [at |-> "chown", uid |-> root, gid |-> root, caps |-> caps,
               owner |-> <<root, root>>, exc |-> "", log |-> <<>>]

\* shutil.chown(pid_file, user, group): both None is a ValueError, an unknown
\* name a LookupError; then os.chown with -1 for None, which needs CAP_CHOWN
\* unless it changes nothing.
Chown ==
    /\ call.fn = "daemote"
    /\ priv.at = "chown"
    /\ LET user == call.user
           group == call.group
           _user == IF user.kind = "None" THEN -1
                    ELSE IF user.kind = "str" THEN passwd[user.name] ELSE user.id
           _group == IF group.kind = "None" THEN -1
                     ELSE IF group.kind = "str" THEN groupdb[group.name] ELSE group.id
           new_owner == <<IF _user = -1 THEN priv.owner[1] ELSE _user,
                          IF _group = -1 THEN priv.owner[2] ELSE _group>>
       IN  IF user.kind = "None" /\ group.kind = "None" THEN Raise("ValueError")
           ELSE IF user.kind = "str" /\ user.name \notin DOMAIN passwd
           THEN Raise("LookupError")
           ELSE IF group.kind = "str" /\ group.name \notin DOMAIN groupdb
           THEN Raise("LookupError")
           ELSE IF "CAP_CHOWN" \notin priv.caps /\ new_owner # priv.owner
           THEN priv' = [priv EXCEPT !.at = "raised", !.exc = "PermissionError",
                                     !.log = Append(@, "chown")]
           ELSE priv' = [priv EXCEPT !.at = NextStep("chown"), !.owner = new_owner,
                                     !.log = Append(@, "chown")]
    /\ UNCHANGED <<call, ret>>

\* _setgroup(group): nothing for None; a name is looked up with grp.getgrnam
\* (KeyError when unknown); os.setgid needs CAP_SETGID unless the gid is the
\* process's own.  The handler of its OSError names self, which is not
\* defined in a module-level function: a NameError leaves in place of the
\* log record and sys.exit(1).
SetGroup ==
    /\ call.fn = "daemote"
    /\ priv.at = "setgroup"
    /\ LET group == call.group
           gid == IF group.kind = "str" THEN groupdb[group.name] ELSE group.id
       IN  IF group.kind = "None" THEN priv' = [priv EXCEPT !.at = NextStep("setgroup")]
           ELSE IF group.kind = "str" /\ group.name \notin DOMAIN groupdb
           THEN Raise("KeyError")
           ELSE IF "CAP_SETGID" \notin priv.caps /\ gid # priv.gid
           THEN priv' = [priv EXCEPT !.at = "raised", !.exc = "NameError",
                                     !.log = Append(@, "setgid")]
           ELSE priv' = [priv EXCEPT !.at = NextStep("setgroup"), !.gid = gid,
                                     !.log = Append(@, "setgid")]
    /\ UNCHANGED <<call, ret>>

\* _setuser(user): as _setgroup, with pwd.getpwnam and os.setuid, which needs
\* CAP_SETUID unless the uid is the process's own; a process that leaves the
\* superuser's uid loses its capabilities.
SetUser ==
    /\ call.fn = "daemote"
    /\ priv.at = "setuser"
    /\ LET user == call.user
           uid == IF user.kind = "str" THEN passwd[user.name] ELSE user.id
       IN  IF user.kind = "None" THEN priv' = [priv EXCEPT !.at = NextStep("setuser")]
           ELSE IF user.kind = "str" /\ user.name \notin DOMAIN passwd
           THEN Raise("KeyError")
           ELSE IF "CAP_SETUID" \notin priv.caps /\ uid # priv.uid
           THEN priv' = [priv EXCEPT !.at = "raised", !.exc = "NameError",
                                     !.log = Append(@, "setuid")]
           ELSE priv' = [priv EXCEPT !.at = NextStep("setuser"), !.uid = uid,
                                     !.caps = IF uid # root THEN {} ELSE @,
                                     !.log = Append(@, "setuid")]
    /\ UNCHANGED <<call, ret>>

\* The daemon's variables while a function is called on its own: no
\* daemonize() is in flight.
NoDaemon ==
    /\ pc = [l \in Lineage |-> [r \in Role |-> "dead"]]
    /\ fdtab = [l \in Lineage |-> [r \in Role |-> ClosedTable]]
    /\ ppid = [l \in Lineage |-> [r \in Role |-> 0]]
    /\ sid = [l \in Lineage |-> [r \in Role |-> 0]]
    /\ exists = [l \in Lineage |-> FALSE]
    /\ pidfd = [l \in Lineage |-> -1]
    /\ shielded = [l \in Lineage |-> {}]
    /\ registered = [l \in Lineage |-> FALSE]
    /\ path = 0
    /\ content = [i \in Inodes |-> <<>>]
    /\ ofdInode = [l \in Lineage |-> 0]
    /\ flocked = [l \in Lineage |-> FALSE]
    /\ pos = [l \in Lineage |-> 0]
    /\ errlog = [l \in Lineage |-> FALSE]

dvars == <<pc, fdtab, ppid, sid, exists, pidfd, shielded, registered, path,
           content, ofdInode, flocked, pos, errlog>>

InitDaemote ==
    /\ NoDaemon
    /\ \E user \in UserArgs, group \in GroupArgs, caps \in SUBSET Capabilities :
         CallDaemote(user, group, caps)

NextDaemote ==
    \/ Chown /\ UNCHANGED dvars
    \/ SetGroup /\ UNCHANGED dvars
    \/ SetUser /\ UNCHANGED dvars

SpecDaemote == InitDaemote /\ [][NextDaemote]_vars

\* C11: daemote changes the ownership of the pidfile first, then attempts
\* the group change, and attempts the user change only after both: no call
\* of os.setuid precedes os.chown or, when a group is given, os.setgid, and
\* no call of os.setgid precedes os.chown.
C11_ChownThenGroupThenUser ==
    call.fn = "daemote" =>
        \A i \in DOMAIN priv.log :
            /\ priv.log[i] = "setuid" =>
                 /\ \E j \in 1..(i - 1) : priv.log[j] = "chown"
                 /\ call.group.kind # "None" => \E j \in 1..(i - 1) : priv.log[j] = "setgid"
            /\ priv.log[i] = "setgid" => \E j \in 1..(i - 1) : priv.log[j] = "chown"

\* A call that changed the ownership, the group id and the user id.
C11_Witness ==
    /\ call.fn = "daemote"
    /\ priv.at = "returned"
    /\ priv.log = <<"chown", "setgid", "setuid">>
    /\ priv.owner # <<root, root>>
    /\ priv.gid # root
    /\ priv.uid # root

\* C12: daemote never applies partial changes: when an exception has left
\* it, the uid and the gid of the process are those from before the call.
C12_NoPartialChange ==
    (call.fn = "daemote" /\ priv.at = "raised") => (priv.uid = root /\ priv.gid = root)

\* C13: ping always answers with a boolean and never raises, whatever state
\* the pidfile is in when it is called: missing, created but not yet
\* written, truncated, holding a stale pid, holding the live daemon's pid.
C13_PingAlwaysBoolean == ping \in {"True", "False"}

\* C14: ping is False when the pidfile records a pid that is not in the
\* process table, and from the return of daemonize() in the daemon until the
\* daemon terminates ping on its pidfile is True.
C14_PingTrueWhileDaemonLives ==
    /\ (path # 0 /\ ParseInt(content[path]) # -1
           /\ ~\E l \in Lineage, r \in Role :
                  Pid(l, r) = ParseInt(content[path]) /\ Alive(l, r))
         => ping = "False"
    /\ \A l \in Lineage, r \in Role : pc[l][r] = "returned" => ping = "True"

----------------------------------------------------------------------------
\* _redirect_stds(stdin_goto, stdout_goto, stderr_goto), called on its own.

\* Paths the streams can be sent to.
Paths == {devnull, "log", "in"}

\* Descriptor tables of the caller: each standard descriptor on the terminal
\* or not open, nothing else open.
StdTables == {t \in [Fds -> {"tty", "closed"}] : \A fd \in Fds : fd > 2 => t[fd] = "closed"}

\* The orders in which a dict with the keys S can iterate.
Orders(S) == {o \in [1..Cardinality(S) -> S] : \A x \in S : \E k \in DOMAIN o : o[k] = x}

InitRedirect ==
    /\ NoDaemon
    /\ \E tab \in StdTables, stdin_goto \in Paths, stdout_goto \in Paths, stderr_goto \in Paths :
         \E order \in Orders({stdin_goto, stdout_goto, stderr_goto}) :
            call = [fn |-> "_redirect_stds", tab |-> tab, order |-> order,
                    stdin_goto |-> stdin_goto, stdout_goto |-> stdout_goto,
                    stderr_goto |-> stderr_goto]
    /\ ret = [done |-> FALSE]
    /\ priv = [at |-> "none"]

\* The call runs to its end.
RedirectCall ==
    /\ call.fn = "_redirect_stds"
    /\ ~ret.done
    /\ ret' = [done |-> TRUE,
               raised |-> RedirectRaises(call.tab),
               headless |-> SysStdoutIsNone(call.tab),
               opens |-> OpenCalls(call.order, call.stdin_goto, call.stdout_goto,
                                   call.stderr_goto),
               fds |-> OpenStreams(call.tab, call.order, 1, <<>>)[2],
               tab |-> _redirect_stds(call.tab, call.order, call.stdin_goto,
                                      call.stdout_goto, call.stderr_goto)]
    /\ UNCHANGED <<call, priv>>

NextRedirect == RedirectCall /\ UNCHANGED dvars

SpecRedirect == InitRedirect /\ [][NextRedirect]_vars

\* C15: _redirect_stds opens each unique target path exactly once, read-only
\* when only stdin maps to it, write-only when only stdout and/or stderr map
\* to it, read-write when stdin shares it with stdout or stderr.
C15_OneOpenPerPathUnionAccess ==
    (call.fn = "_redirect_stds" /\ ret.done) =>
        LET targets == {call.stdin_goto, call.stdout_goto, call.stderr_goto}
            writes(p) == p \in {call.stdout_goto, call.stderr_goto}
        IN  /\ \A p \in targets :
                  Cardinality({k \in DOMAIN ret.opens : ret.opens[k][1] = p}) = 1
            /\ \A k \in DOMAIN ret.opens :
                  LET p == ret.opens[k][1]
                  IN  /\ p \in targets
                      /\ ret.opens[k][2] =
                            IF p = call.stdin_goto /\ ~writes(p) THEN O_RDONLY
                            ELSE IF p # call.stdin_goto THEN O_WRONLY
                            ELSE O_RDWR

\* A call in which stdin shares its path with stdout and stderr goes
\* elsewhere: one read-write open and one write-only open.
C15_Witness ==
    /\ call.fn = "_redirect_stds"
    /\ ret.done
    /\ call.stdin_goto = call.stdout_goto
    /\ call.stderr_goto # call.stdin_goto
    /\ Len(ret.opens) = 2
    /\ \E k \in DOMAIN ret.opens : ret.opens[k] = <<call.stdin_goto, O_RDWR>>
    /\ \E k \in DOMAIN ret.opens : ret.opens[k] = <<call.stderr_goto, O_WRONLY>>

\* C16: when _redirect_stds has returned in the non-headless case, whatever
\* descriptor table it started from, descriptors 0, 1 and 2 are open on the
\* stdin, stdout and stderr targets and every other descriptor it opened for
\* a target is closed.
C16_StdsBoundOthersClosed ==
    (call.fn = "_redirect_stds" /\ ret.done /\ ~ret.headless /\ ~ret.raised) =>
        /\ ret.tab[0] = call.stdin_goto
        /\ ret.tab[1] = call.stdout_goto
        /\ ret.tab[2] = call.stderr_goto
        /\ \A k \in DOMAIN ret.fds : ret.fds[k] > 2 => ret.tab[ret.fds[k]] = "closed"

----------------------------------------------------------------------------
\* _make_range_tuples(start, stop, exclude), called on its own.

\* Largest stop, and longest exclude list, it is called with.
MaxStop == 7
MaxExclude == 4

\* First descriptors to close: 3 as _autoclose_files passes it, and 2.
Starts == {2, 3}

\* Exclude lists: descriptors below start, inside the range, at stop and
\* above it, in any order, repeated or not.
ExcludeLists == UNION {[1..n -> 1..(MaxStop + 1)] : n \in 0..MaxExclude}

InitRange ==
    /\ NoDaemon
    /\ \E start \in Starts, exclude \in ExcludeLists :
         \E stop \in start..MaxStop :
            call = [fn |-> "_make_range_tuples", start |-> start, stop |-> stop,
                    exclude |-> exclude]
    /\ ret = [done |-> FALSE]
    /\ priv = [at |-> "none"]

\* The call returns its list of ranges.
RangeCall ==
    /\ call.fn = "_make_range_tuples"
    /\ ~ret.done
    /\ ret' = [done |-> TRUE,
               ranges |-> _make_range_tuples(call.start, call.stop, call.exclude)]
    /\ UNCHANGED <<call, priv>>

NextRange == RangeCall /\ UNCHANGED dvars

SpecRange == InitRange /\ [][NextRange]_vars

\* The descriptors os.closerange closes for a list of half-open ranges.
Covered(ranges) == UNION {ranges[k][1]..(ranges[k][2] - 1) : k \in DOMAIN ranges}

\* The values of a list.
Elems(list) == {list[k] : k \in DOMAIN list}

\* C17: the ranges _make_range_tuples returns cover exactly the integers of
\* [start, stop) that are not in exclude, whatever exclude holds (values
\* below start, at or above stop, nothing); (3, 7, {4}) gives [(3,4),(5,7)],
\* (3, 7, {}) gives [(3,7)] and (3, 7, {3,4,5,6}) gives [].
C17_CoversExactlyTheGaps ==
    (call.fn = "_make_range_tuples" /\ ret.done) =>
        /\ Covered(ret.ranges) =
              {d \in call.start..(call.stop - 1) : d \notin Elems(call.exclude)}
        /\ (call.start = 3 /\ call.stop = 7) =>
              /\ call.exclude = <<4>> => ret.ranges = <<<<3, 4>>, <<5, 7>>>>
              /\ call.exclude = <<>> => ret.ranges = <<<<3, 7>>>>
              /\ (Elems(call.exclude) = {3, 4, 5, 6} /\ Len(call.exclude) = 4)
                    => ret.ranges = <<>>

\* C18: the ranges _make_range_tuples returns are in ascending order, each
\* non-empty, pairwise disjoint, and consecutive ones are separated by at
\* least one excluded descriptor, for every exclude list, with or without
\* repeated values.
C18_MaximalAscendingGaps ==
    (call.fn = "_make_range_tuples" /\ ret.done) =>
        /\ \A k \in DOMAIN ret.ranges : ret.ranges[k][1] < ret.ranges[k][2]
        /\ \A k \in 1..(Len(ret.ranges) - 1) :
              /\ ret.ranges[k][2] < ret.ranges[k + 1][1]
              /\ \E e \in Elems(call.exclude) :
                    ret.ranges[k][2] <= e /\ e < ret.ranges[k + 1][1]

----------------------------------------------------------------------------
\* _autoclose_files: the resolution of the descriptor limit, on its own.

\* Largest finite limit on open files.
MaxLimit == 6

\* Values of resource.getrlimit(RLIMIT_NOFILE): (softlimit, hardlimit) with
\* the soft limit never above the hard one, RLIM_INFINITY above everything.
Limits ==
    {lim \in ({RLIM_INFINITY} \cup 1..MaxLimit) \X ({RLIM_INFINITY} \cup 1..MaxLimit) :
        \/ lim[2] = RLIM_INFINITY
        \/ lim[1] # RLIM_INFINITY /\ lim[1] <= lim[2]}

\* Values of fallback_limit the caller passes.
Fallbacks == {fd_fallback_limit} \cup 1..MaxLimit

InitLimit ==
    /\ NoDaemon
    /\ \E lim \in Limits, fallback_limit \in Fallbacks :
         call = [fn |-> "_autoclose_files", softlimit |-> lim[1], hardlimit |-> lim[2],
                 fallback_limit |-> fallback_limit]
    /\ ret = [done |-> FALSE]
    /\ priv = [at |-> "none"]

\* The limit is resolved.
LimitCall ==
    /\ call.fn = "_autoclose_files"
    /\ ~ret.done
    /\ ret' = [done |-> TRUE,
               fdlimit |-> ResolveFdLimit(call.softlimit, call.hardlimit,
                                          call.fallback_limit)]
    /\ UNCHANGED <<call, priv>>

NextLimit == LimitCall /\ UNCHANGED dvars

SpecLimit == InitLimit /\ [][NextLimit]_vars

\* C19: the upper bound of the descriptors to close is the hard limit when
\* it is finite, else the soft limit when that is finite, else the fallback
\* the caller passed.
C19_HardThenSoftThenFallback ==
    (call.fn = "_autoclose_files" /\ ret.done) =>
        /\ call.hardlimit # RLIM_INFINITY => ret.fdlimit = call.hardlimit
        /\ (call.hardlimit = RLIM_INFINITY /\ call.softlimit # RLIM_INFINITY)
              => ret.fdlimit = call.softlimit
        /\ (call.hardlimit = RLIM_INFINITY /\ call.softlimit = RLIM_INFINITY)
              => ret.fdlimit = call.fallback_limit

\* A call with a finite hard limit above the soft limit and a different
\* fallback: the hard limit is used.
C19_Witness ==
    /\ call.fn = "_autoclose_files"
    /\ ret.done
    /\ call.hardlimit # RLIM_INFINITY
    /\ call.softlimit < call.hardlimit
    /\ call.fallback_limit # call.hardlimit
    /\ ret.fdlimit = call.hardlimit

----------------------------------------------------------------------------
\* C20: whenever a call of daemonize() holds the lock on the pidfile and the
\* file is not empty, the pid recorded in it - the one send() and ping()
\* would signal - is the pid of that call's daemon; also between
\* _acquire_pidfile and _write_pid.
C20_RecordedPidIsOwnDaemon ==
    \A l \in Lineage :
        (flocked[l] /\ path = ofdInode[l] /\ content[path] # <<>>)
            => ParseInt(content[path]) = Pid(l, 3)

----------------------------------------------------------------------------
\* C21: a cleanup removes only its own pidfile: no os.remove of a cleanup
\* unlinks a file that a different live call of daemonize() has opened and
\* locked, and while a daemon that has returned from daemonize() holds its
\* lock, the pidfile path names the file it has locked.
C21_CleanupRemovesOnlyOwnPidfile ==
    [][ /\ \A l \in Lineage, r \in Role :
              (pc[l][r] = "cleanup_remove" /\ pc'[l][r] = "dead" /\ path # 0 /\ path' = 0)
                  => ~\E k \in Lineage : k # l /\ LiveHolder(k) /\ ofdInode[k] = path
        /\ \A l \in Lineage, r \in Role :
              (pc'[l][r] = "returned" /\ flocked'[l]) => path' = ofdInode'[l]
      ]_vars

====
